---- MODULE Spec2Model ----
(***************************************************************************)
(* The chat endpoint of main.py: POST /chat classifies one message and     *)
(* answers with a weather report, a completion, a static small-talk reply  *)
(* or a fixed fallback.                                                    *)
(*                                                                         *)
(* A Python str is modelled as a sequence of one-character strings, so     *)
(* that the regular expressions, strip(), lower() and the f-string of the  *)
(* source are computed character by character.  Each literal of the        *)
(* source is quoted in the comment above its definition.                   *)
(***************************************************************************)
EXTENDS Integers, Sequences, FiniteSets, TLC

\* Python's None.  Its single element is not one character, so it differs
\* from every str.
None == <<"None">>

\* bool(x) of a str-or-None value: None and "" are falsy.
Truthy(x) == x # None /\ x # <<>>

----------------------------------------------------------------------------
\* Characters

LowerAlpha == <<"a", "b", "c", "d", "e", "f", "g", "h", "i", "j", "k", "l",
    "m", "n", "o", "p", "q", "r", "s", "t", "u", "v", "w", "x", "y", "z">>
UpperAlpha == <<"A", "B", "C", "D", "E", "F", "G", "H", "I", "J", "K", "L",
    "M", "N", "O", "P", "Q", "R", "S", "T", "U", "V", "W", "X", "Y", "Z">>
DigitChars == <<"0", "1", "2", "3", "4", "5", "6", "7", "8", "9">>

Range(s) == {s[i] : i \in 1..Len(s)}

Lower == Range(LowerAlpha)
Upper == Range(UpperAlpha)
Digit == Range(DigitChars)
Letter == Lower \cup Upper

\* \s of the patterns and the characters strip() removes
Whitespace == {" ", "\t", "\n"}

\* \w of the patterns
WordChar == Letter \cup Digit \cup {"_"}

\* the class [a-zA-Z\s'.-] of both patterns of extract_city
CityClass == Letter \cup Whitespace \cup {"'", ".", "-"}

\* str.lower() on one character
LowerChar(c) ==
  IF c \in Upper THEN LowerAlpha[CHOOSE i \in 1..26 : UpperAlpha[i] = c] ELSE c

\* str.lower()
StrLower(s) == [i \in 1..Len(s) |-> LowerChar(s[i])]

\* str.strip()
StripBounds(s) ==
  {i \in 1..Len(s) : s[i] \notin Whitespace}

Strip(s) ==
  IF StripBounds(s) = {} THEN <<>>
  ELSE LET lo == CHOOSE i \in StripBounds(s) : \A j \in StripBounds(s) : i <= j
           hi == CHOOSE i \in StripBounds(s) : \A j \in StripBounds(s) : i >= j
       IN SubSeq(s, lo, hi)

----------------------------------------------------------------------------
\* Regular-expression pieces (re.search, re.IGNORECASE)

\* the literal lit (lower case) matches s at position i, ignoring case
MatchLit(s, i, lit) ==
  /\ i >= 1
  /\ i + Len(lit) - 1 <= Len(s)
  /\ \A j \in 1..Len(lit) : LowerChar(s[i + j - 1]) = lit[j]

\* length of the longest run of characters of Cls starting at position i
RunLen(s, i, Cls) ==
  CHOOSE n \in 0..(Len(s) - i + 1) :
    /\ \A j \in 0..(n - 1) : s[i + j] \in Cls
    /\ (i + n > Len(s) \/ s[i + n] \notin Cls)

\* \b between the characters at positions pos-1 and pos
IsWordAt(s, i) == i >= 1 /\ i <= Len(s) /\ s[i] \in WordChar
WordBoundary(s, pos) == IsWordAt(s, pos - 1) # IsWordAt(s, pos)

\* 'sub' in s
Contains(s, sub) ==
  \E i \in 1..Len(s) :
    i + Len(sub) - 1 <= Len(s) /\ SubSeq(s, i, i + Len(sub) - 1) = sub

Min(a, b) == IF a <= b THEN a ELSE b

\* r"weather\s+(?:in|at|for)\s+([a-zA-Z\s'.-]{2,})" tried at position i.
\* The first \s+ takes the whole run of whitespace (a keyword starts with a
\* letter).  The second \s+ is greedy but gives characters back until the
\* class has two: with k whitespace characters inside a class run of length
\* L after the keyword, it keeps Min(k, L - 2) of them, and needs L >= 3.
WeatherKeywords == {<<"i", "n">>, <<"a", "t">>, <<"f", "o", "r">>}

WeatherPatAt(s, i) ==
  IF ~MatchLit(s, i, <<"w", "e", "a", "t", "h", "e", "r">>) THEN None
  ELSE LET k1 == RunLen(s, i + 7, Whitespace)
           q  == i + 7 + k1
       IN IF k1 < 1 \/ ~\E kw \in WeatherKeywords : MatchLit(s, q, kw) THEN None
          ELSE LET kw == CHOOSE kw \in WeatherKeywords : MatchLit(s, q, kw)
                   p  == q + Len(kw)
                   k  == RunLen(s, p, Whitespace)
                   L  == RunLen(s, p, CityClass)
               IN IF k < 1 \/ L < 3 THEN None
                  ELSE SubSeq(s, p + Min(k, L - 2), p + L - 1)

\* r"\b(?:in|at)\s+([A-Za-z\s'.-]{2,})\b" tried at position i: \s+ takes t
\* whitespace characters and the class n >= 2 characters ending at a word
\* boundary; the regex engine prefers the larger t, then the larger n.
PlaceKeywords == {<<"i", "n">>, <<"a", "t">>}

PlaceCands(s, p) ==
  LET k == RunLen(s, p, Whitespace)
      L == RunLen(s, p, CityClass)
  IN {tn \in (1..k) \X (2..L) :
        tn[1] + tn[2] <= L /\ WordBoundary(s, p + tn[1] + tn[2])}

PlacePatAt(s, i) ==
  IF ~WordBoundary(s, i) \/ ~\E kw \in PlaceKeywords : MatchLit(s, i, kw)
  THEN None
  ELSE LET p == i + 2
           C == PlaceCands(s, p)
       IN IF C = {} THEN None
          ELSE LET b == CHOOSE tn \in C : \A o \in C :
                          tn[1] > o[1] \/ (tn[1] = o[1] /\ tn[2] >= o[2])
               IN SubSeq(s, p + b[1], p + b[1] + b[2] - 1)

\* re.search: group(1) of the leftmost match, None when there is none
WeatherSearch(s) ==
  LET hits == {i \in 1..Len(s) : WeatherPatAt(s, i) # None}
  IN IF hits = {} THEN None
     ELSE WeatherPatAt(s, CHOOSE i \in hits : \A j \in hits : i <= j)

PlaceSearch(s) ==
  LET hits == {i \in 1..Len(s) : PlacePatAt(s, i) # None}
  IN IF hits = {} THEN None
     ELSE PlacePatAt(s, CHOOSE i \in hits : \A j \in hits : i <= j)

\* def extract_city(text)
extract_city(text) ==
  LET m1 == WeatherSearch(text)
      m2 == PlaceSearch(text)
  IN IF m1 # None THEN Strip(m1)
     ELSE IF m2 # None /\ Contains(StrLower(text), <<"w", "e", "a", "t", "h",
         "e", "r">>) THEN Strip(m2)
     ELSE None

\* re.search(r"\b(hi|hello|hey)\b", text, re.I) and re.search(r"\bhelp\b", ...)
WordSearch(s, words) ==
  \E i \in 1..Len(s) : \E wd \in words :
    /\ WordBoundary(s, i)
    /\ MatchLit(s, i, wd)
    /\ WordBoundary(s, i + Len(wd))

GreetingWords == {<<"h", "i">>, <<"h", "e", "l", "l", "o">>, <<"h", "e",
    "y">>}
HelpWords == {<<"h", "e", "l", "p">>}

----------------------------------------------------------------------------
\* Values of the JSON payloads and their formatting

\* str(n) of an int, as an f-string field renders it
RECURSIVE NatToStr(_)
NatToStr(n) ==
  IF n < 10 THEN <<DigitChars[n + 1]>>
  ELSE NatToStr(n \div 10) \o <<DigitChars[(n % 10) + 1]>>

IntToStr(n) == IF n < 0 THEN <<"-">> \o NatToStr(-n) ELSE NatToStr(n)

\* a JSON number, a JSON null (or an absent key read with .get), and a JSON
\* string that is not a numeral
JInt(n) == [t |-> "int", n |-> n]
JNull == [t |-> "null", n |-> 0]
JText == [t |-> "text", n |-> 0]

\* an f-string field {v} of a number or of None
Format(v) == IF v.t = "int" THEN IntToStr(v.n) ELSE <<"N", "o", "n", "e">>

\* the marker of an exception leaving a block; no str and not None
Raised == <<"Raised">>

----------------------------------------------------------------------------
\* What the three services can answer

MaxTemp == 21
MaxWind == 120

\* readings of current_weather: whole numbers, or null when the key is absent
Temperatures == {JInt(-MaxTemp), JInt(18), JInt(MaxTemp), JNull}
WindSpeeds == {JInt(0), JInt(10), JInt(MaxWind), JNull}

\* code_map, lines 136-143
code_map ==
  (0 :> <<"c", "l", "e", "a", "r">>) @@ (1 :> <<"m", "a", "i", "n", "l", "y",
      " ", "c", "l", "e", "a", "r">>) @@ (2 :> <<"p", "a", "r", "t", "l", "y",
      " ", "c", "l", "o", "u", "d", "y">>) @@
  (3 :> <<"o", "v", "e", "r", "c", "a", "s", "t">>) @@
  (45 :> <<"f", "o", "g">>) @@ (48 :> <<"d", "e", "p", "o", "s", "i", "t",
      "i", "n", "g", " ", "r", "i", "m", "e", " ", "f", "o", "g">>) @@
  (51 :> <<"l", "i", "g", "h", "t", " ", "d", "r", "i", "z", "z", "l",
      "e">>) @@ (53 :> <<"d", "r", "i", "z", "z", "l", "e">>) @@ (55 :> <<"d",
      "e", "n", "s", "e", " ", "d", "r", "i", "z", "z", "l", "e">>) @@
  (61 :> <<"l", "i", "g", "h", "t", " ", "r", "a", "i",
      "n">>) @@ (63 :> <<"r", "a", "i", "n">>) @@ (65 :> <<"h", "e", "a", "v",
      "y", " ", "r", "a", "i", "n">>) @@
  (71 :> <<"l", "i", "g", "h", "t", " ", "s", "n", "o",
      "w">>) @@ (73 :> <<"s", "n", "o", "w">>) @@ (75 :> <<"h", "e", "a", "v",
      "y", " ", "s", "n", "o", "w">>) @@
  (80 :> <<"r", "a", "i", "n", " ", "s", "h", "o", "w", "e", "r",
      "s">>) @@ (81 :> <<"h", "e", "a", "v", "y", " ", "r", "a", "i", "n",
      " ", "s", "h", "o", "w", "e", "r", "s">>) @@
  (82 :> <<"v", "i", "o", "l", "e", "n", "t", " ", "r", "a", "i", "n", " ",
      "s", "h", "o", "w", "e", "r", "s">>)

\* "conditions available", the default of code_map.get
DefaultCondition == <<"c", "o", "n", "d", "i", "t", "i", "o", "n", "s", " ",
    "a", "v", "a", "i", "l", "a", "b", "l", "e">>

\* codes the forecast service may send that the table does not know
UnknownCodes == {-1, 4, 95}

WeatherCodes ==
  {JInt(c) : c \in DOMAIN code_map \cup UnknownCodes} \cup {JNull, JText}

\* a call that does not yield a JSON object: requests raises (connection
\* error, timeout), .json() raises (body is no JSON), or the JSON value is
\* not an object, so that .get raises AttributeError
FailKinds == {"network_error", "timeout", "malformed", "not_object"}

GeoKeys == {"latitude", "longitude", "name", "country"}

GeoMatch(name, country, keys) ==
  [kind |-> "match", name |-> name, country |-> country, keys |-> keys]

NoGeo == [kind |-> "none", name |-> <<>>, country |-> <<>>, keys |-> {}]

\* answers of the geocoding service: a failure, an empty result set, or a
\* top match with the keys it carries
GeoResponses ==
  {[kind |-> k, name |-> <<>>, country |-> <<>>, keys |-> {}] :
      k \in FailKinds \cup {"no_results"}}
  \cup {GeoMatch(<<"P", "a", "r", "i", "s">>, <<"F", "r", "a", "n", "c",
      "e">>, GeoKeys),
        GeoMatch(<<"R", "o", "m", "e">>, <<"I", "t", "a", "l",
            "y">>, GeoKeys),
        GeoMatch(<<"P", "a", "r", "i", "s">>, <<>>, GeoKeys \ {"country"}),
        GeoMatch(<<"P", "a", "r", "i", "s">>, <<"F", "r", "a", "n", "c",
            "e">>, GeoKeys \ {"latitude"}),
        GeoMatch(<<>>, <<"I", "t", "a", "l", "y">>, GeoKeys \ {"name"})}

NoForecast ==
  [kind |-> "none", temperature |-> JNull, windspeed |-> JNull,
   weathercode |-> JNull]

\* answers of the forecast service: a failure, no (or an empty)
\* current_weather, or a non-empty current_weather object
ForecastResponses ==
  {[kind |-> k, temperature |-> JNull, windspeed |-> JNull,
    weathercode |-> JNull] : k \in FailKinds \cup {"no_current"}}
  \cup [kind : {"current"}, temperature : Temperatures,
        windspeed : WindSpeeds, weathercode : WeatherCodes]

NoCompletion == [kind |-> "none", content |-> <<>>]

\* answers of the completion service: a failure, an error object without
\* "choices", an empty list of choices, a first choice whose content is
\* null, or a first choice with text
CompletionContents ==
  {<<"4">>, <<" ", "P", "a", "r", "i", "s", " ", "i", "s", " ", "l", "o", "v",
      "e", "l", "y", " ", "i", "n", " ", "s", "p", "r", "i", "n", "g", ".",
      "\n">>, <<"H", "e", "l", "l", "o", "!", " ", "H", "o", "w", " ", "c",
      "a", "n", " ", "I", " ", "h", "e", "l", "p", "?">>, <<>>,
   <<" ", "\n">>}

CompletionResponses ==
  {[kind |-> k, content |-> <<>>] :
      k \in (FailKinds \ {"not_object"})
            \cup {"auth_error", "no_choices", "null_content"}}
  \cup [kind : {"content"}, content : CompletionContents]

\* request bodies {"message": ...}
Messages ==
  {<<"w", "e", "a", "t", "h", "e", "r", " ", "i", "n", " ", "P", "a", "r",
      "i", "s">>, <<"h", "e", "l", "l", "o">>, <<"c", "a", "l", "c", " ", "2",
      " ", "+", " ", "2">>, <<"a", "s", "d", "k", "j", "a", "s", "d">>, <<"h",
      "e", "l", "p">>,
   <<" ", " ", "W", "e", "a", "t", "h", "e", "r", " ", " ", "a", "t", " ",
       " ", "R", "o", "m", "e", " ", "5">>, <<"i", "s", " ", "i", "t", " ",
       "h", "o", "t", " ", "i", "n", " ", "O", "s", "l", "o", "?", " ", "w",
       "e", "a", "t", "h", "e", "r">>, <<"w", "e", "a", "t", "h", "e", "r",
       " ", "i", "n", " ", "P">>,
   <<"w", "e", "a", "t", "h", "e", "r", " ", "f", "o", "r", " ", " ", " ",
       "7">>, <<" ", "C", "A", "L", "C", " ", "2", " ", "+", " ",
       "2">>, <<"h", "i", " ", "w", "e", "a", "t", "h", "e", "r", " ", "i",
       "n", " ", "P", "a", "r", "i", "s">>, <<"t", "h", "i", "s">>,
   <<"h", "e", "y", ",", " ", "h", "e", "l", "p">>, <<"c", "a", "l", "c", " ",
       "w", "e", "a", "t", "h", "e", "r", " ", "i", "n", " ", "P", "a", "r",
       "i", "s">>, <<"c", "a", "l", "c", "u", "l", "u", "s", " ", "h", "e",
       "l", "p">>, <<>>}

----------------------------------------------------------------------------
\* fetch_weather

\* lines 115-123: the geocoding call up to the unpacking of the top match
GeocodeOutcome(g) ==
  IF g.kind \in FailKinds THEN "raise"
  ELSE IF g.kind = "no_results" THEN "return_none"
  ELSE IF {"latitude", "longitude", "name"} \subseteq g.keys THEN "continue"
  ELSE "raise"

\* weathercode or -1
OrMinusOne(v) ==
  IF v.t = "null" \/ (v.t = "int" /\ v.n = 0) THEN JInt(-1) ELSE v

\* code_map.get(int(weathercode or -1), "conditions available")
Condition(weathercode) ==
  LET v == OrMinusOne(weathercode)
  IN IF v.t # "int" THEN Raised
     ELSE IF v.n \in DOMAIN code_map THEN code_map[v.n]
     ELSE DefaultCondition

\* the f-string with the temperature and the wind speed exchanged
WeatherText_swapped(name, country, temp, cond, wind) ==
  <<"W", "e", "a", "t", "h", "e", "r", " ", "f", "o", "r",
      " ">> \o name \o <<",", " ">> \o country \o <<":", " ">> \o Format(wind)
    \o <<"°", "C", ",", " ">> \o cond \o <<",", " ", "w", "i", "n", "d",
        " ">> \o Format(temp) \o <<" ", "k", "m", "/", "h", ".">>

\* line 145: the f-string
WeatherText(name, country, temp, cond, wind) ==
  <<"W", "e", "a", "t", "h", "e", "r", " ", "f", "o", "r",
      " ">> \o name \o <<",", " ">> \o country \o <<":", " ">> \o Format(temp)
    \o <<"°", "C", ",", " ">> \o cond \o <<",", " ", "w", "i", "n", "d",
        " ">> \o Format(wind) \o <<" ", "k", "m", "/", "h", ".">>

\* lines 124-145: the forecast call and the reply, for the top match g
ForecastOutcome(g, f) ==
  IF f.kind \in FailKinds THEN Raised
  ELSE IF f.kind = "no_current" THEN None
  ELSE IF Condition(f.weathercode) = Raised THEN Raised
  ELSE WeatherText(g.name,
                   IF "country" \in g.keys THEN g.country ELSE <<>>,
                   f.temperature, Condition(f.weathercode), f.windspeed)

\* fetch_weather without its except clause
fetch_weather_propagates(result) == result

\* lines 114, 146-147: try ... except Exception: return None
fetch_weather_except(result) == IF result = Raised THEN None ELSE result

----------------------------------------------------------------------------
\* call_openai

\* "Error calling OpenAI API."
OpenAIError == <<"E", "r", "r", "o", "r", " ", "c", "a", "l", "l", "i", "n",
    "g", " ", "O", "p", "e", "n", "A", "I", " ", "A", "P", "I", ".">>

\* lines 151-163: the call and resp["choices"][0]["message"]["content"].strip()
CompletionOutcome(r) ==
  IF r.kind = "content" THEN Strip(r.content) ELSE Raised

\* call_openai without its except clause
call_openai_propagates(result) == result

\* lines 150, 164-165: try ... except Exception: return the error string
call_openai_except(result) == IF result = Raised THEN OpenAIError ELSE result

----------------------------------------------------------------------------
\* chat

\* "Hey! Ask me for the weather: e.g., 'weather in Tokyo'."
GreetingReply == <<"H", "e", "y", "!", " ", "A", "s", "k", " ", "m", "e", " ",
    "f", "o", "r", " ", "t", "h", "e", " ", "w", "e", "a", "t", "h", "e", "r",
    ":", " ", "e", ".", "g", ".", ",", " ", "'", "w", "e", "a", "t", "h", "e",
    "r", " ", "i", "n", " ", "T", "o", "k", "y", "o", "'", ".">>
\* "I can fetch current weather via Open-Meteo. Try 'weather in <city>'."
HelpReply == <<"I", " ", "c", "a", "n", " ", "f", "e", "t", "c", "h", " ",
    "c", "u", "r", "r", "e", "n", "t", " ", "w", "e", "a", "t", "h", "e", "r",
    " ", "v", "i", "a", " ", "O", "p", "e", "n", "-", "M", "e", "t", "e", "o",
    ".", " ", "T", "r", "y", " ", "'", "w", "e", "a", "t", "h", "e", "r", " ",
    "i", "n", " ", "<", "c", "i", "t", "y", ">", "'", ".">>
\* "Got it! (Tip: try 'weather in Berlin')"
GenericReply == <<"G", "o", "t", " ", "i", "t", "!", " ", "(", "T", "i", "p",
    ":", " ", "t", "r", "y", " ", "'", "w", "e", "a", "t", "h", "e", "r", " ",
    "i", "n", " ", "B", "e", "r", "l", "i", "n", "'", ")">>

\* the test of the flag alone
openai_enabled_flag_only(flag, key) == flag

\* line 186: if USE_OPENAI and OPENAI_API_KEY
openai_enabled(flag, key) == flag /\ Truthy(key)

\* the static replies without the test for a greeting
static_branch_no_greeting(t) ==
  IF WordSearch(t, HelpWords) THEN "help" ELSE "generic"

\* the static replies without the test for "help"
static_branch_no_help(t) ==
  IF WordSearch(t, GreetingWords) THEN "greeting" ELSE "generic"

\* lines 191-195: which of the three static replies
static_branch(t) ==
  IF WordSearch(t, GreetingWords) THEN "greeting"
  ELSE IF WordSearch(t, HelpWords) THEN "help"
  ELSE "generic"

StaticReply(b) ==
  IF b = "greeting" THEN GreetingReply
  ELSE IF b = "help" THEN HelpReply
  ELSE GenericReply

\* values of OPENAI_API_KEY
ApiKeys == {<<>>, <<"s", "k", "-", "t", "e", "s", "t">>}

VARIABLES
  USE_OPENAI,      \* line 11
  OPENAI_API_KEY,  \* line 12
  pc,              \* where the handler of the current request stands
  text,            \* chat: text
  city,            \* chat: city
  geo,             \* fetch_weather: answer of the geocoding call made
  forecast,        \* fetch_weather: answer of the forecast call made
  w,               \* chat: w
  completion,      \* call_openai: answer of the completion call made
  calls,           \* the outbound calls made for the current request, in order
  branch,          \* the return statement of chat that produced the reply
  reply,           \* the "reply" field of the JSONResponse
  status           \* HTTP status of the response: 200, or 500 on a fault

vars == <<USE_OPENAI, OPENAI_API_KEY, pc, text, city, geo, forecast, w,
          completion, calls, branch, reply, status>>

config == <<USE_OPENAI, OPENAI_API_KEY>>

Init ==
  /\ USE_OPENAI \in BOOLEAN
  /\ OPENAI_API_KEY \in ApiKeys
  /\ pc = "idle"
  /\ text = None
  /\ city = None
  /\ geo = NoGeo
  /\ forecast = NoForecast
  /\ w = None
  /\ completion = NoCompletion
  /\ calls = <<>>
  /\ branch = "none"
  /\ reply = None
  /\ status = 0

\* an exception leaves chat: the framework answers 500 without a reply
Fault ==
  /\ pc' = "done"
  /\ branch' = "fault"
  /\ reply' = None
  /\ status' = 500

\* return JSONResponse({"reply": r}) at the return statement b
Return(b, r) ==
  /\ pc' = "done"
  /\ branch' = b
  /\ reply' = r
  /\ status' = 200

\* lines 176-180: a request arrives; strip, extract_city, if city
Chat(msg) ==
  /\ pc = "idle"
  /\ text' = Strip(msg)
  /\ city' = extract_city(text')
  /\ pc' = IF Truthy(city') THEN "geocode" ELSE "fallback"
  /\ UNCHANGED <<config, geo, forecast, w, completion, calls, branch, reply,
                 status>>

\* the geocoding call repeated after a failure
Geocode_retry(g) ==
  /\ pc = "geocode"
  /\ geo' = g
  /\ calls' = Append(calls, "geocoding")
  /\ IF GeocodeOutcome(g) = "continue"
     THEN pc' = "forecast"
     ELSE IF GeocodeOutcome(g) = "raise" THEN pc' = "geocode"
     ELSE pc' = "fallback"
  /\ w' = None
  /\ UNCHANGED <<config, text, city, forecast, completion, branch, reply,
                 status>>

\* lines 181, 115-123: fetch_weather(city) up to the top match
Geocode(g) ==
  /\ pc = "geocode"
  /\ geo' = g
  /\ calls' = Append(calls, "geocoding")
  /\ IF GeocodeOutcome(g) = "continue"
     THEN /\ pc' = "forecast"
          /\ UNCHANGED <<w, branch, reply, status>>
     ELSE /\ w' = fetch_weather_except(
                    IF GeocodeOutcome(g) = "raise" THEN Raised ELSE None)
          /\ IF w' = Raised THEN Fault
             ELSE /\ pc' = "fallback"
                  /\ UNCHANGED <<branch, reply, status>>
  /\ UNCHANGED <<config, text, city, forecast, completion>>

\* lines 124-147, 182-183: the rest of fetch_weather; if w: return it
Forecast(f) ==
  /\ pc = "forecast"
  /\ forecast' = f
  /\ calls' = Append(calls, "forecast")
  /\ w' = fetch_weather_except(ForecastOutcome(geo, f))
  /\ IF w' = Raised THEN Fault
     ELSE IF Truthy(w') THEN Return("weather", w')
     ELSE /\ pc' = "fallback"
          /\ UNCHANGED <<branch, reply, status>>
  /\ UNCHANGED <<config, text, city, geo, completion>>

\* lines 186-188: the completion path
CallOpenAI(r) ==
  /\ pc = "fallback"
  /\ openai_enabled(USE_OPENAI, OPENAI_API_KEY)
  /\ completion' = r
  /\ calls' = Append(calls, "completion")
  /\ LET ai_reply == call_openai_except(CompletionOutcome(r))
     IN IF ai_reply = Raised THEN Fault ELSE Return("openai", ai_reply)
  /\ UNCHANGED <<config, text, city, geo, forecast, w>>

\* the static replies without the final return: the handler ends with no
\* reply to send
Smalltalk_no_final_return ==
  /\ pc = "fallback"
  /\ ~openai_enabled(USE_OPENAI, OPENAI_API_KEY)
  /\ IF static_branch(text) = "generic"
     THEN /\ pc' = "done"
          /\ branch' = "generic"
          /\ reply' = None
          /\ status' = 200
     ELSE Return(static_branch(text), StaticReply(static_branch(text)))
  /\ UNCHANGED <<config, text, city, geo, forecast, w, completion, calls>>

\* lines 190-195: the static replies
Smalltalk ==
  /\ pc = "fallback"
  /\ ~openai_enabled(USE_OPENAI, OPENAI_API_KEY)
  /\ Return(static_branch(text), StaticReply(static_branch(text)))
  /\ UNCHANGED <<config, text, city, geo, forecast, w, completion, calls>>

\* the response is sent; the handler is ready for the next request
Respond ==
  /\ pc = "done"
  /\ pc' = "idle"
  /\ text' = None
  /\ city' = None
  /\ geo' = NoGeo
  /\ forecast' = NoForecast
  /\ w' = None
  /\ completion' = NoCompletion
  /\ calls' = <<>>
  /\ branch' = "none"
  /\ reply' = None
  /\ status' = 0
  /\ UNCHANGED config

Next ==
  \/ \E msg \in Messages : Chat(msg)
  \/ \E g \in GeoResponses : Geocode(g)
  \/ \E f \in ForecastResponses : Forecast(f)
  \/ \E r \in CompletionResponses : CallOpenAI(r)
  \/ Smalltalk
  \/ Respond

Spec == Init /\ [][Next]_vars

\* Every outbound call carries a timeout (8 and 20 seconds) and so ends, and
\* the handler runs on between the calls: each step of a request in progress
\* is eventually taken.  Nothing obliges a next request to arrive.
FairSpec ==
  /\ Spec
  /\ WF_vars(\E g \in GeoResponses : Geocode(g))
  /\ WF_vars(\E f \in ForecastResponses : Forecast(f))
  /\ WF_vars(\E r \in CompletionResponses : CallOpenAI(r))
  /\ WF_vars(Smalltalk)

----------------------------------------------------------------------------
\* Properties

\* the flag is on and a credential is configured
Configured == USE_OPENAI /\ OPENAI_API_KEY # <<>>

\* extract_city returned a city and fetch_weather returned a result
HasWeatherReply == city \notin {None, <<>>} /\ w \notin {None, <<>>}

HasGreeting == WordSearch(text, GreetingWords)
HasHelp == WordSearch(text, HelpWords)

\* C1: the reply of every request is chosen by the fixed priority weather
\* reply, then completion reply (flag on and credential configured), then
\* static greeting reply, then static help reply, then the generic
\* fallback; with no city, no keyword and the completion disabled the reply
\* is the generic fallback.
C1_ReplyPriority ==
  pc = "done" =>
    /\ HasWeatherReply => branch = "weather" /\ reply = w
    /\ ~HasWeatherReply /\ Configured =>
         /\ branch = "openai"
         /\ completion.kind # "none"
         /\ reply = IF completion.kind = "content"
                    THEN Strip(completion.content) ELSE OpenAIError
    /\ ~HasWeatherReply /\ ~Configured =>
         /\ completion.kind = "none"
         /\ reply = IF HasGreeting THEN GreetingReply
                    ELSE IF HasHelp THEN HelpReply
                    ELSE GenericReply
    /\ city = None /\ ~HasGreeting /\ ~HasHelp /\ ~Configured
         => reply = GenericReply

\* a greeting that also asks for the weather, with the completion enabled:
\* the weather reply wins over both lower branches
C1_Witness ==
  /\ pc = "done"
  /\ text = <<"h", "i", " ", "w", "e", "a", "t", "h", "e", "r", " ", "i", "n",
      " ", "P", "a", "r", "i", "s">>
  /\ Configured
  /\ HasWeatherReply
  /\ reply = w

\* C2: every request ends with status 200 and a reply that is a non-empty
\* string, whatever the outbound calls answer.
C2_ReplyNonEmpty ==
  pc = "done" => status = 200 /\ reply # None /\ reply # <<>>

\* the geocoding call failed, found nothing, or its match lacks a key
GeoFailed ==
  \/ geo.kind \in FailKinds \cup {"no_results"}
  \/ /\ geo.kind = "match"
     /\ ~({"latitude", "longitude", "name"} \subseteq geo.keys)

\* the forecast call failed, carries no current conditions, or its weather
\* code is no number
ForecastFailed ==
  \/ forecast.kind \in FailKinds \cup {"no_current"}
  \/ forecast.kind = "current" /\ forecast.weathercode = JText

LaterBranches == {"openai", "greeting", "help", "generic"}

\* C3: fetch_weather never raises; when geocoding finds no match, when the
\* current conditions are empty or when either call fails, it yields None
\* and chat goes on to the completion or the static replies.
C3_FetchWeatherNeverRaises ==
  /\ w # Raised
  /\ branch # "fault"
  /\ status # 500
  /\ (GeoFailed \/ ForecastFailed) =>
       /\ w = None
       /\ pc \in {"fallback", "done"}
       /\ pc = "done" => branch \in LaterBranches /\ status = 200

\* the forecast call timed out and the request was answered by the generic
\* fallback
C3_Witness ==
  /\ pc = "done"
  /\ geo.kind = "match"
  /\ forecast.kind = "timeout"
  /\ w = None
  /\ branch = "generic"

\* C4: when the completion path is taken and the completion call fails in
\* any way, the reply is the fixed error string, returned with status 200.
C4_CompletionFailureReply ==
  /\ pc = "done" /\ completion.kind \notin {"none", "content"} =>
       /\ branch = "openai"
       /\ reply = <<"E", "r", "r", "o", "r", " ", "c", "a", "l", "l", "i",
           "n", "g", " ", "O", "p", "e", "n", "A", "I", " ", "A", "P", "I",
           ".">>
       /\ status = 200
  /\ pc = "done" /\ completion.kind = "content" => branch = "openai"

\* the completion service rejected the credential
C4_Witness ==
  /\ pc = "done"
  /\ completion.kind = "auth_error"
  /\ reply = OpenAIError

\* the phrase the lookup table gives for a weather code
TablePhrase(code) ==
  IF code.t = "int" /\ code.n \in DOMAIN code_map THEN code_map[code.n]
  ELSE DefaultCondition

GeoCountry == IF "country" \in geo.keys THEN geo.country ELSE <<>>

\* C5: the condition phrase of a weather reply is the table's phrase for a
\* known code (0 gives "clear") and "conditions available" exactly for an
\* unrecognized or missing code.
C5_ConditionPhrase ==
  pc = "done" /\ branch = "weather" =>
    reply = WeatherText(geo.name, GeoCountry, forecast.temperature,
                        TablePhrase(forecast.weathercode), forecast.windspeed)

\* the phrases a weather reply can carry
Phrases == {code_map[c] : c \in DOMAIN code_map} \cup {DefaultCondition}

\* C6: when extract_city found a city, geocoding returned a match and the
\* forecast returned current conditions, the reply is "Weather for ", the
\* resolved name, the country, the temperature, a condition phrase and the
\* wind speed, in that order, name and country being those of the
\* geocoding response; Paris/France, 18, code 1, wind 10 gives the reply of
\* the scenario.
C6_WeatherReplyFields ==
  pc = "done" /\ city \notin {None, <<>>} /\ ~GeoFailed /\ ~ForecastFailed =>
    /\ branch = "weather"
    /\ status = 200
    /\ \E cond \in Phrases :
         reply = <<"W", "e", "a", "t", "h", "e", "r", " ", "f", "o", "r",
             " ">> \o geo.name \o <<",", " ">> \o GeoCountry \o <<":", " ">>
                   \o Format(forecast.temperature) \o <<"°", "C", ",",
                       " ">> \o cond
                   \o <<",", " ", "w", "i", "n", "d",
                       " ">> \o Format(forecast.windspeed) \o <<" ", "k", "m",
                       "/", "h", ".">>
    /\ ( /\ geo.name = <<"P", "a", "r", "i", "s">>
         /\ GeoCountry = <<"F", "r", "a", "n", "c", "e">>
         /\ forecast.temperature = JInt(18)
         /\ forecast.windspeed = JInt(10)
         /\ forecast.weathercode = JInt(1) )
       => reply = <<"W", "e", "a", "t", "h", "e", "r", " ", "f", "o", "r",
           " ", "P", "a", "r", "i", "s", ",", " ", "F", "r", "a", "n", "c",
           "e", ":", " ", "1", "8", "°", "C", ",", " ", "m", "a", "i", "n",
           "l", "y", " ", "c", "l", "e", "a", "r", ",", " ", "w", "i", "n",
           "d", " ", "1", "0", " ", "k", "m", "/", "h", ".">>

\* the scenario of the specification: "weather in Paris", resolved to Paris,
\* France, with 18 degrees, code 1 and wind 10
C6_Witness ==
  /\ pc = "done"
  /\ text = <<"w", "e", "a", "t", "h", "e", "r", " ", "i", "n", " ", "P", "a",
      "r", "i", "s">>
  /\ geo.name = <<"P", "a", "r", "i", "s">>
  /\ reply = <<"W", "e", "a", "t", "h", "e", "r", " ", "f", "o", "r", " ",
      "P", "a", "r", "i", "s", ",", " ", "F", "r", "a", "n", "c", "e", ":",
      " ", "1", "8", "°", "C", ",", " ", "m", "a", "i", "n", "l", "y", " ",
      "c", "l", "e", "a", "r", ",", " ", "w", "i", "n", "d", " ", "1", "0",
      " ", "k", "m", "/", "h", ".">>

\* the text begins with "calc", ignoring case
BeginsWithCalc == text # None /\ MatchLit(text, 1, <<"c", "a", "l", "c">>)

C8_HelloAlwaysGreeting ==
  pc = "done" /\ text = <<"h", "e", "l", "l", "o">> =>
    /\ reply = GreetingReply
    /\ geo.kind = "none"
    /\ forecast.kind = "none"

\* C8 as amended: "hello" never takes the weather branch and no geocoding
\* or forecast call is made; it is answered by the fixed greeting reply
\* unless the completion is enabled and configured, and then by the
\* completion reply (the completion's text, or the fixed error string).
C8_HelloGreetingUnlessCompletion ==
  text = <<"h", "e", "l", "l", "o">> =>
    /\ city = None
    /\ geo.kind = "none" /\ forecast.kind = "none"
    /\ "geocoding" \notin Range(calls) /\ "forecast" \notin Range(calls)
    /\ pc \in {"fallback", "done"}
    /\ pc = "done" /\ ~Configured =>
         branch = "greeting" /\ reply = GreetingReply /\ calls = <<>>
    /\ pc = "done" /\ Configured =>
         /\ branch = "openai"
         /\ calls = <<"completion">>
         /\ reply \in {Strip(c) : c \in CompletionContents} \cup {OpenAIError}

\* "hello" with the completion disabled
C8_Witness ==
  /\ pc = "done"
  /\ text = <<"h", "e", "l", "l", "o">>
  /\ ~USE_OPENAI
  /\ reply = GreetingReply

\* number of calls to a service in the current request
Count(service) == Cardinality({i \in 1..Len(calls) : calls[i] = service})

\* position of the call to a service, when there is one
Position(service) == CHOOSE i \in 1..Len(calls) : calls[i] = service

\* C9: within one request each service is called at most once; geocoding
\* only when a city was extracted; the forecast only after the geocoding
\* call of the request returned a match; no call is repeated after it
\* failed.
C9_NoRetrySequentialCalls ==
  /\ Count("geocoding") <= 1
  /\ Count("forecast") <= 1
  /\ Count("completion") <= 1
  /\ Count("geocoding") = 1 => city \notin {None, <<>>}
  /\ Count("forecast") = 1 =>
       /\ Count("geocoding") = 1
       /\ Position("geocoding") < Position("forecast")
       /\ geo.kind = "match"
  /\ Count("forecast") = 0 => forecast.kind = "none"
  /\ Count("geocoding") = 0 => geo.kind = "none"

\* both weather calls were made, the forecast failed, and the completion
\* was called next: three calls, none repeated
C9_Witness ==
  /\ pc = "done"
  /\ forecast.kind = "network_error"
  /\ calls = <<"geocoding", "forecast", "completion">>

\* C10: under FairSpec every request in progress reaches a return with a
\* reply, and a request whose geocoding or forecast call timed out goes on
\* to a later branch and is answered there.
C10_EveryRequestReplies ==
  /\ (pc \in {"geocode", "forecast", "fallback"})
       ~> (pc = "done" /\ status = 200 /\ reply # None)
  /\ (pc # "idle" /\ (geo.kind = "timeout" \/ forecast.kind = "timeout"))
       ~> (pc = "done" /\ w = None /\ branch \in LaterBranches)

\* a request answered after its geocoding call timed out
C10_Witness ==
  /\ pc = "done"
  /\ geo.kind = "timeout"
  /\ calls[1] = "geocoding"
  /\ reply # None
====
